---- MODULE Spec2Model ----
(***************************************************************************)
(* Model of the Tryton module default_value (src/default_value.py).        *)
(*                                                                         *)
(* A default.value entry couples one ir.model.field with a default kept    *)
(* as text (default_value).  Typed accessors convert the text to and from  *)
(* values (get_value / set_value); set_default_values generates the source *)
(* of a function default_<field>, execs it and installs the function in    *)
(* Model._defaults.  The module is Python 2 code (it uses the exec         *)
(* statement), so str(), octal integer literals and the truth value of     *)
(* datetime.time are those of Python 2.                                    *)
(*                                                                         *)
(* Texts are sequences of one-character strings, so that slicing           *)
(* (value[:4], value[5:7], ...) and parsing are computed, not assumed.     *)
(*                                                                         *)
(* An operator that needs an intermediate result several times takes it as *)
(* a parameter of a helper (Foo calls FooWith(..., result)): the result is *)
(* then written, and evaluated, once.                                      *)
(***************************************************************************)
EXTENDS Integers, Sequences, FiniteSets, TLC

VARIABLES
    entries,    \* the default.value table: entry id -> row, or NoRow
    defaults,   \* Model._defaults of every model: <<model, field name>> -> function
    loader,     \* the thread started by __post_setup__ (load_default_values)
    last,       \* the last request handled and its outcome
    rec,        \* one default.value instance seen through its typed accessors
    recdef,     \* the function installed for rec's field, if any
    out         \* the result of the last accessor call on rec

vars == <<entries, defaults, loader, last, rec, recdef, out>>

(***************************************************************************)
(* Python values.                                                          *)
(***************************************************************************)
NoneV == [t |-> "none"]
BoolV(b) == [t |-> "bool", b |-> b]
IntV(i) == [t |-> "int", i |-> i]
StrV(s) == [t |-> "str", s |-> s]
\* A float, by the digits of its shortest repr: 0.d1d2...dk, d1 # 0.
FloatV(sig) == [t |-> "float", sig |-> sig]
\* A Decimal: coef * 10^(-places), sign kept apart.
DecimalV(neg, coef, places) == [t |-> "decimal", neg |-> neg, coef |-> coef, places |-> places]
DateV(y, m, d) == [t |-> "date", y |-> y, m |-> m, d |-> d]
TimeV(h, mi, s) == [t |-> "time", h |-> h, mi |-> mi, sec |-> s]
DatetimeV(y, m, d, h, mi, s) ==
    [t |-> "datetime", y |-> y, m |-> m, d |-> d, h |-> h, mi |-> mi, sec |-> s]
\* An exception raised instead of a value.
Raised(e) == [t |-> "raise", e |-> e]

IsRaised(v) == v.t = "raise"

\* Python's truth value of a stored text or None: "if value".
Truthy(v) == v.t = "str" /\ Len(v.s) > 0

(***************************************************************************)
(* Characters and numerals.                                                *)
(***************************************************************************)
Digits == <<"0", "1", "2", "3", "4", "5", "6", "7", "8", "9">>

DigitChar(i) == Digits[i + 1]

IsDigit(c) == \E i \in 1..10 : Digits[i] = c

DigitVal(c) == (CHOOSE i \in 1..10 : Digits[i] = c) - 1

AllDigits(s) == Len(s) > 0 /\ \A i \in 1..Len(s) : IsDigit(s[i])

RECURSIVE NatToText(_)
NatToText(n) == IF n < 10 THEN <<DigitChar(n)>>
                ELSE NatToText(n \div 10) \o <<DigitChar(n % 10)>>

RECURSIVE TextToNat(_)
\* The decimal value of a text of digits (leading zeros allowed, as int() reads them).
TextToNat(s) == IF Len(s) = 0 THEN 0
                ELSE 10 * TextToNat(SubSeq(s, 1, Len(s) - 1)) + DigitVal(s[Len(s)])

RECURSIVE TextToOctal(_)
TextToOctal(s) == IF Len(s) = 0 THEN 0
                  ELSE 8 * TextToOctal(SubSeq(s, 1, Len(s) - 1)) + DigitVal(s[Len(s)])

RECURSIVE ZeroPad(_, _)
\* "%0<w>d"
ZeroPad(s, w) == IF Len(s) >= w THEN s ELSE ZeroPad(<<"0">> \o s, w)

\* Python slices s[a:b] and s[a:] (0-based, clipped to the text).
Slice(s, a, b) == SubSeq(s, a + 1, IF b > Len(s) THEN Len(s) ELSE b)
SliceFrom(s, a) == SubSeq(s, a + 1, Len(s))

RECURSIVE StripZeros(_)
StripZeros(s) == IF Len(s) > 0 /\ s[Len(s)] = "0"
                 THEN StripZeros(SubSeq(s, 1, Len(s) - 1)) ELSE s

RECURSIVE CountChar(_, _)
CountChar(s, c) == IF Len(s) = 0 THEN 0
                   ELSE (IF s[1] = c THEN 1 ELSE 0) + CountChar(Tail(s), c)

IndexOf(s, c) == IF \E i \in 1..Len(s) : s[i] = c
                 THEN CHOOSE i \in 1..Len(s) : s[i] = c /\ \A j \in 1..(i-1) : s[j] # c
                 ELSE 0

TextTrue == <<"T", "r", "u", "e">>
TextFalse == <<"F", "a", "l", "s", "e">>
TextNone == <<"N", "o", "n", "e">>

(***************************************************************************)
(* Python 2 conversions used by the accessors.                             *)
(***************************************************************************)
\* str(float) keeps 12 significant digits ('%.12g').
FloatPrec == 12

RECURSIVE Increment(_)
\* The digits of 0.s plus one unit in the last place (the sampled floats
\* never carry out of the first digit).
Increment(s) ==
    IF Len(s) = 0 THEN <<>>
    ELSE IF s[Len(s)] # "9"
         THEN SubSeq(s, 1, Len(s) - 1) \o <<DigitChar(DigitVal(s[Len(s)]) + 1)>>
         ELSE Increment(SubSeq(s, 1, Len(s) - 1)) \o <<"0">>

\* The digits '%.<n>g' keeps of 0.sig: rounded at n digits, trailing zeros dropped.
RoundSig(sig, n) ==
    IF Len(sig) <= n THEN sig
    ELSE IF DigitVal(sig[n + 1]) >= 5 THEN StripZeros(Increment(SubSeq(sig, 1, n)))
    ELSE StripZeros(SubSeq(sig, 1, n))

FloatText(r) == <<"0", ".">> \o (IF Len(r) = 0 THEN <<"0">> ELSE r)

PointAt(ds, places) ==
    SubSeq(ds, 1, Len(ds) - places)
        \o (IF places > 0 THEN <<".">> \o SubSeq(ds, Len(ds) - places + 1, Len(ds)) ELSE <<>>)

DecimalText(neg, coef, places) ==
    (IF neg THEN <<"-">> ELSE <<>>) \o PointAt(ZeroPad(NatToText(coef), places + 1), places)

DateText(y, m, d) ==
    ZeroPad(NatToText(y), 4) \o <<"-">> \o ZeroPad(NatToText(m), 2) \o <<"-">>
        \o ZeroPad(NatToText(d), 2)

TimeText(h, mi, s) ==
    ZeroPad(NatToText(h), 2) \o <<":">> \o ZeroPad(NatToText(mi), 2) \o <<":">>
        \o ZeroPad(NatToText(s), 2)

\* str(value), line 279.
PyStr(v) ==
    CASE v.t = "none" -> TextNone
      [] v.t = "bool" -> (IF v.b THEN TextTrue ELSE TextFalse)
      [] v.t = "int" -> (IF v.i < 0 THEN <<"-">> \o NatToText(-v.i) ELSE NatToText(v.i))
      [] v.t = "str" -> v.s
      [] v.t = "float" -> FloatText(RoundSig(v.sig, FloatPrec))
      [] v.t = "decimal" -> DecimalText(v.neg, v.coef, v.places)
      [] v.t = "date" -> DateText(v.y, v.m, v.d)
      [] v.t = "time" -> TimeText(v.h, v.mi, v.sec)
      [] v.t = "datetime" ->
            DateText(v.y, v.m, v.d) \o <<" ">> \o TimeText(v.h, v.mi, v.sec)

IsNegative(s) == Len(s) > 1 /\ s[1] = "-"

\* int(text)
PyInt(s) ==
    IF AllDigits(s) THEN IntV(TextToNat(s))
    ELSE IF IsNegative(s) /\ AllDigits(Tail(s)) THEN IntV(-TextToNat(Tail(s)))
    ELSE Raised("ValueError")

\* float(text), for the texts of floats in [0, 1): "0." and digits.
PyFloat(s) ==
    IF Len(s) >= 3 /\ s[1] = "0" /\ s[2] = "." /\ AllDigits(SliceFrom(s, 2))
    THEN FloatV(StripZeros(SliceFrom(s, 2)))
    ELSE Raised("ValueError")

DecimalOf(neg, ip, fp) ==
    IF AllDigits(ip \o fp)
    THEN DecimalV(neg, TextToNat(ip \o fp), Len(fp))
    ELSE Raised("InvalidOperation")

UnsignedDecimal(neg, u, p) ==
    IF p = 0 THEN DecimalOf(neg, u, <<>>)
    ELSE DecimalOf(neg, SubSeq(u, 1, p - 1), SubSeq(u, p + 1, Len(u)))

\* Decimal(text)
PyDecimal(s) ==
    IF IsNegative(s) THEN UnsignedDecimal(TRUE, Tail(s), IndexOf(Tail(s), "."))
    ELSE UnsignedDecimal(FALSE, s, IndexOf(s, "."))

IsLeap(y) == (y % 4 = 0 /\ y % 100 # 0) \/ y % 400 = 0

DaysInMonth(y, m) ==
    IF m = 2 THEN (IF IsLeap(y) THEN 29 ELSE 28)
    ELSE IF m \in {4, 6, 9, 11} THEN 30 ELSE 31

\* date(y, m, d) with Python ints or the exceptions raised for them.
PyDate(y, m, d) ==
    IF IsRaised(y) THEN y ELSE IF IsRaised(m) THEN m ELSE IF IsRaised(d) THEN d
    ELSE IF /\ y.i >= 1 /\ y.i <= 9999 /\ m.i >= 1 /\ m.i <= 12
            /\ d.i >= 1 /\ d.i <= DaysInMonth(y.i, m.i)
         THEN DateV(y.i, m.i, d.i)
         ELSE Raised("ValueError")

\* time(h, mi, s)
PyTime(h, mi, s) ==
    IF IsRaised(h) THEN h ELSE IF IsRaised(mi) THEN mi ELSE IF IsRaised(s) THEN s
    ELSE IF /\ h.i >= 0 /\ h.i <= 23 /\ mi.i >= 0 /\ mi.i <= 59 /\ s.i >= 0 /\ s.i <= 59
         THEN TimeV(h.i, mi.i, s.i)
         ELSE Raised("ValueError")

PyDatetime(dt, tm) ==
    IF IsRaised(dt) THEN dt ELSE IF IsRaised(tm) THEN tm
    ELSE DatetimeV(dt.y, dt.m, dt.d, tm.h, tm.mi, tm.sec)

\* datetime.strptime(text, '%Y-%m-%d %H:%M:%S'), for fixed-width texts.
PyStrptime(s) ==
    IF /\ Len(s) = 19
       /\ s[5] = "-" /\ s[8] = "-" /\ s[11] = " " /\ s[14] = ":" /\ s[17] = ":"
       /\ \A i \in (1..19) \ {5, 8, 11, 14, 17} : IsDigit(s[i])
    THEN PyDatetime(PyDate(PyInt(Slice(s, 0, 4)), PyInt(Slice(s, 5, 7)), PyInt(Slice(s, 8, 10))),
                    PyTime(PyInt(Slice(s, 11, 13)), PyInt(Slice(s, 14, 16)),
                           PyInt(Slice(s, 17, 19))))
    ELSE Raised("ValueError")

\* "x and y or None" for a date, datetime or time y: in Python 2 a naive time
\* is false at midnight; dates and datetimes are always true.
OrNone(v) == IF v.t = "time" /\ v.h = 0 /\ v.mi = 0 /\ v.sec = 0 THEN NoneV ELSE v

(***************************************************************************)
(* The source text set_default_values generates, and what Python makes of  *)
(* it.  A source is kept as its template and the texts substituted in it.  *)
(***************************************************************************)
FIELD_TYPES == {"boolean", "char", "integer", "text", "float", "numeric",
                "date", "datetime", "time", "many2one", "selection", "reference"}

Letters == {"a", "b", "T", "r", "u", "e", "F", "l", "s", "N", "o", "n"}

AllLetters(s) == Len(s) > 0 /\ \A i \in 1..Len(s) : s[i] \in Letters

\* '%s' % value
Fmt(value) == IF value.t = "none" THEN TextNone ELSE value.s

Src(tmpl, fname, args) == [tmpl |-> tmpl, fname |-> fname, args |-> args]

\* def_default_function before its first assignment.
Unbound == [tmpl |-> "unbound"]
\* No function under a name or key.
Absent == [tmpl |-> "absent"]
\* A default_<name> method the model's own class defines.
Method(fname) == [tmpl |-> "method", fname |-> fname]

\* A Python 2 integer literal: a leading 0 makes it octal, and 8 or 9 in an
\* octal literal is a syntax error.
PyIntLiteral(s) ==
    IF Len(s) = 0 THEN Raised("SyntaxError")
    ELSE IF ~AllDigits(s)
         THEN (IF AllLetters(s) THEN Raised("NameError") ELSE Raised("SyntaxError"))
    ELSE IF Len(s) > 1 /\ s[1] = "0"
         THEN (IF \A i \in 1..Len(s) : DigitVal(s[i]) <= 7
               THEN IntV(TextToOctal(s)) ELSE Raised("SyntaxError"))
    ELSE IntV(TextToNat(s))

Negated(v) == IF IsRaised(v) THEN v ELSE IntV(-v.i)

FloatOrName(s, f) ==
    IF ~IsRaised(f) THEN f
    ELSE IF AllLetters(s) THEN Raised("NameError")
    ELSE Raised("SyntaxError")

\* The expression after "return " in the unquoted template.
PyRawExpr(s) ==
    IF Len(s) = 0 THEN NoneV
    ELSE IF s = TextNone THEN NoneV
    ELSE IF s = TextTrue THEN BoolV(TRUE)
    ELSE IF s = TextFalse THEN BoolV(FALSE)
    ELSE IF AllDigits(s) THEN PyIntLiteral(s)
    ELSE IF IsNegative(s) /\ AllDigits(Tail(s)) THEN Negated(PyIntLiteral(Tail(s)))
    ELSE FloatOrName(s, PyFloat(s))

\* Whether a text can stand between single quotes: a quote or a backslash in
\* it ends or breaks the literal (exact for the texts with at most one of
\* them, which are the ones the model draws).
Quotable(s) == CountChar(s, "'") = 0 /\ CountChar(s, "\\") = 0

SyntaxFirst(a, b, c, v) ==
    IF \E x \in {a, b, c} : x = Raised("SyntaxError") THEN Raised("SyntaxError") ELSE v

DateLiteral(y, m, d) == SyntaxFirst(y, m, d, PyDate(y, m, d))

TimeLiteral(h, m, s) == SyntaxFirst(h, m, s, PyTime(h, m, s))

\* What the body of a generated function evaluates to; the SyntaxError is
\* raised by exec, the other exceptions when the function is called.
PyEval(src) ==
    CASE src.tmpl = "quoted" ->
            (IF Quotable(src.args[1]) THEN StrV(src.args[1]) ELSE Raised("SyntaxError"))
      [] src.tmpl = "raw" -> PyRawExpr(src.args[1])
      [] src.tmpl = "decimal" ->
            (IF Quotable(src.args[1]) THEN PyDecimal(src.args[1]) ELSE Raised("SyntaxError"))
      [] src.tmpl = "date" ->
            DateLiteral(PyIntLiteral(src.args[1]), PyIntLiteral(src.args[2]),
                        PyIntLiteral(src.args[3]))
      [] src.tmpl = "datetime" ->
            (IF Quotable(src.args[1]) THEN PyStrptime(src.args[1]) ELSE Raised("SyntaxError"))
      [] src.tmpl = "time" ->
            TimeLiteral(PyIntLiteral(src.args[1]), PyIntLiteral(src.args[2]),
                        PyIntLiteral(src.args[3]))
      [] OTHER -> Raised("NameError")

\* Calling an installed default function.
Invoke(fn) == PyEval(fn)

(***************************************************************************)
(* set_default_values, lines 199-244.  An entry is seen as                 *)
(* [model, name, ttype, value]: default_value.model.model,                 *)
(* default_value.field.name, default_value.field_type and                  *)
(* default_value.default_value.                                            *)
(***************************************************************************)
\* Lines 210-242: the source chosen for an entry, or prev (the value
\* def_default_function already has) where no branch assigns it.
GeneratedSource(prev, e) ==
    IF e.ttype \in {"char", "text", "selection", "reference"}
    THEN Src("quoted", e.name, <<Fmt(e.value)>>)
    ELSE IF e.ttype \in {"boolean", "integer", "float", "many2one"}
    THEN Src("raw", e.name, <<Fmt(e.value)>>)
    ELSE IF e.ttype = "numeric"
    THEN Src("decimal", e.name, <<Fmt(e.value)>>)
    ELSE IF ~Truthy(e.value)
    THEN prev
    ELSE IF e.ttype = "date"
    THEN Src("date", e.name, <<Slice(e.value.s, 0, 4), Slice(e.value.s, 5, 7),
                               SliceFrom(e.value.s, 8)>>)
    ELSE IF e.ttype = "datetime"
    THEN Src("datetime", e.name, <<e.value.s>>)
    ELSE IF e.ttype = "time"
    THEN Src("time", e.name, <<Slice(e.value.s, 0, 2), Slice(e.value.s, 3, 5),
                               SliceFrom(e.value.s, 6)>>)
    ELSE prev

\* The local scope of one call: def_default_function and the functions the
\* exec statements have defined so far, by name.
Scope(ddf, fns) == [ddf |-> ddf, fns |-> fns]

NewScope == Scope(Unbound, {})

\* eval('default_%s' % field_name), line 244.
Lookup(fns, fname) == IF \E f \in fns : f.fname = fname
                      THEN CHOOSE f \in fns : f.fname = fname
                      ELSE Absent

\* exec def_default_function, line 243, of a source that compiles.
Define(fns, src) == {f \in fns : f.fname # src.fname} \cup {src}

\* What one turn of the loop leaves: the scope, the exception raised (NoneV
\* when none) and the function put in Model._defaults.
Turn(scope, raised, fn) == [scope |-> scope, raised |-> raised, fn |-> fn]

Evaluated(scope, fn) ==
    Turn(scope, IF fn = Absent THEN Raised("NameError") ELSE NoneV, fn)

Executed(ddf, fns, fname) == Evaluated(Scope(ddf, fns), Lookup(fns, fname))

\* Lines 243-244 with def_default_function = ddf; reading the unassigned
\* variable raises, and so does exec of a source that does not compile.
ExecEval(scope, e, ddf) ==
    IF ddf = Unbound THEN Turn(scope, Raised("NameError"), Absent)
    ELSE IF PyEval(ddf) = Raised("SyntaxError")
         THEN Turn(Scope(ddf, scope.fns), Raised("SyntaxError"), Absent)
    ELSE Executed(ddf, Define(scope.fns, ddf), e.name)

\* Lines 206-244 for one entry.
set_default_values_step(scope, e) == ExecEval(scope, e, GeneratedSource(scope.ddf, e))

Key(e) == <<e.model, e.name>>

Passed(d, raised) == [defaults |-> d, raised |-> raised]

RECURSIVE set_default_values_loop(_, _, _)
RECURSIVE LoopTurn(_, _, _)
\* The loop of lines 205-244 over the entries es, from the mapping d.
set_default_values_loop(d, scope, es) ==
    IF Len(es) = 0 THEN Passed(d, NoneV)
    ELSE LoopTurn(d, es, set_default_values_step(scope, Head(es)))

LoopTurn(d, es, r) ==
    IF IsRaised(r.raised) THEN Passed(d, r.raised)
    ELSE set_default_values_loop([d EXCEPT ![Key(Head(es))] = r.fn], r.scope, Tail(es))

\* set_default_values(default_values): all is what search([]) returns.
set_default_values(d, es, all) ==
    set_default_values_loop(d, NewScope, IF Len(es) = 0 THEN all ELSE es)

(***************************************************************************)
(* The typed accessors, lines 246-280.                                     *)
(***************************************************************************)
\* Lines 254-273, for a stored text that is not empty.
Converted(name, s) ==
    CASE name = "boolean" -> BoolV(s = TextTrue)
      [] name = "integer" -> PyInt(s)
      [] name = "float" -> PyFloat(s)
      [] name = "numeric" -> PyDecimal(s)
      [] name = "date" ->
            OrNone(PyDate(PyInt(Slice(s, 0, 4)), PyInt(Slice(s, 5, 7)), PyInt(SliceFrom(s, 8))))
      [] name = "datetime" -> OrNone(PyStrptime(s))
      [] name = "time" ->
            OrNone(PyTime(PyInt(Slice(s, 0, 2)), PyInt(Slice(s, 3, 5)), PyInt(SliceFrom(s, 6))))
      [] OTHER -> StrV(s)

\* Lines 254-273, for None and the empty text.
Fallback(name, value) ==
    CASE name = "boolean" -> BoolV(FALSE)
      [] name = "integer" -> IntV(0)
      [] name = "float" -> FloatV(<<>>)
      [] name = "numeric" -> DecimalV(FALSE, 0, 1)
      [] name \in {"date", "datetime", "time"} -> NoneV
      [] OTHER -> value

\* get_value(self, name); e is the entry as above.
get_value(e, name) ==
    IF e.ttype # name THEN NoneV
    ELSE IF Truthy(e.value) THEN Converted(name, e.value.s)
    ELSE Fallback(name, e.value)

\* Line 278: whether set_value stores anything for this entry.
SetApplies(e, name, value) == name = e.ttype /\ value # NoneV

\* Line 279: the text set_value stores.
StoredText(value) == StrV(PyStr(value))

(***************************************************************************)
(* Field descriptors (ir.model.field rows together with what the target    *)
(* model's class declares for the field).                                  *)
(***************************************************************************)
\* An option of a selection: (key, label); the key is None or a text.
Option(key, label) == <<key, label>>

\* selection = [(None, '')], line 131.
EmptyOption == Option(NoneV, <<>>)

FieldDesc(model, name, ttype, has_default, functional, selection, related) ==
    [model |-> model, name |-> name, ttype |-> ttype, has_default |-> has_default,
     functional |-> functional, selection |-> selection, related |-> related]

\* self.field of an instance without a field.
NoField == [ttype |-> "none"]

\* The entry as set_default_values and get_value read it.
EntryView(fd, value) ==
    [model |-> fd.model, name |-> fd.name, ttype |-> fd.ttype, value |-> value]

\* on_change_with_field_type, lines 246-248.
on_change_with_field_type(fd) == IF fd = NoField THEN "none" ELSE fd.ttype

RECURSIVE RelatedOptions(_)
\* (str(m.id), m.rec_name) for m in Model.search([]), lines 138-139.
RelatedOptions(ms) ==
    IF Len(ms) = 0 THEN <<>>
    ELSE <<Option(StrV(PyStr(IntV(Head(ms).id))), Head(ms).rec_name)>>
             \o RelatedOptions(Tail(ms))

\* get_selection_values, lines 126-140.
get_selection_values(fd) ==
    IF fd = NoField THEN <<EmptyOption>>
    ELSE IF on_change_with_field_type(fd) = "selection"
         THEN <<EmptyOption>> \o fd.selection
    ELSE IF on_change_with_field_type(fd) = "many2one"
         THEN <<EmptyOption>> \o RelatedOptions(fd.related)
    ELSE <<EmptyOption>>

(***************************************************************************)
(* The registry: the default.value table and Model._defaults.              *)
(***************************************************************************)
\* Entry ids the table may hold at once.
MaxEntries == 2
\* Rows of one create call.
MaxBatch == 2

EntryIds == 1..MaxEntries

\* The fields of the target models "A" and "B": two plain fields that share
\* the name x, a field whose model defines default_d, and a Function field.
Fields ==
    <<FieldDesc("A", "x", "char", FALSE, FALSE, <<>>, <<>>),
      FieldDesc("B", "x", "date", FALSE, FALSE, <<>>, <<>>),
      FieldDesc("A", "d", "char", TRUE, FALSE, <<>>, <<>>),
      FieldDesc("B", "c", "integer", FALSE, TRUE, <<>>, <<>>)>>

FieldIds == DOMAIN Fields

Keys == {<<Fields[f].model, Fields[f].name>> : f \in FieldIds}

FieldOfKey(k) == CHOOSE f \in FieldIds : <<Fields[f].model, Fields[f].name>> = k

NoRow == [field |-> 0]

Row(f, value) == [field |-> f, value |-> value]

Persisted(tbl) == {i \in EntryIds : tbl[i] # NoRow}

View(tbl, i) == EntryView(Fields[tbl[i].field], tbl[i].value)

RECURSIVE IdsFrom(_, _)
\* The ids of the rows of tbl from id i on, ascending: search([]).
IdsFrom(tbl, i) ==
    IF i > MaxEntries THEN <<>>
    ELSE (IF tbl[i] # NoRow THEN <<i>> ELSE <<>>) \o IdsFrom(tbl, i + 1)

Views(tbl, ids) == [n \in 1..Len(ids) |-> View(tbl, ids[n])]

AllViews(tbl) == Views(tbl, IdsFrom(tbl, 1))

InList(ids, i) == \E n \in 1..Len(ids) : ids[n] = i

\* Model._defaults as the classes build it: the default_<name> methods.
ClassDefaults ==
    [k \in Keys |-> IF Fields[FieldOfKey(k)].has_default THEN Method(k[2]) ELSE Absent]

\* The constraint default_uniq, lines 108-112: Unique(t, t.field).
UniqueOK(tbl) ==
    \A i, j \in Persisted(tbl) : i # j => tbl[i].field # tbl[j].field

\* The accessor a typed value is sent under.
AccessorOf(v) ==
    CASE v.t = "str" -> "char"
      [] v.t = "date" -> "date"
      [] v.t = "int" -> "integer"
      [] OTHER -> "none"

\* What a call leaves: the table, Model._defaults and the exception raised.
Outcome(tbl, d, raised) == [entries |-> tbl, defaults |-> d, raised |-> raised]

RECURSIVE set_value(_, _, _, _, _)
RECURSIVE Saved(_, _, _, _, _)
\* set_value, lines 275-280, on the records ids.
set_value(tbl, d, ids, name, value) ==
    IF Len(ids) = 0 THEN Outcome(tbl, d, NoneV)
    ELSE IF ~SetApplies(View(tbl, Head(ids)), name, value)
         THEN set_value(tbl, d, Tail(ids), name, value)
    ELSE Saved([tbl EXCEPT ![Head(ids)].value = StoredText(value)], ids, name, value,
               set_default_values(d, <<EntryView(Fields[tbl[Head(ids)].field],
                                                 StoredText(value))>>, <<>>))

\* default_value.save(), line 280: a write of default_value, which ends in
\* set_default_values([record]) (line 188); r is what that call leaves.
Saved(tbl, ids, name, value, r) ==
    IF IsRaised(r.raised) THEN Outcome(tbl, r.defaults, r.raised)
    ELSE set_value(tbl, r.defaults, Tail(ids), name, value)

(***************************************************************************)
(* create, lines 168-181.                                                  *)
(***************************************************************************)
\* create without lines 172-180: nothing is checked.
CreateCheckNothing(vlist) == NoneV

RECURSIVE CreateCheck(_)
\* Lines 172-180: the error of the first row that has one, NoneV if none.
CreateCheck(vlist) ==
    IF Len(vlist) = 0 THEN NoneV
    ELSE IF Fields[Head(vlist).field].has_default THEN Raised("field_has_default_value")
    ELSE IF Fields[Head(vlist).field].functional THEN Raised("field_is_functional")
    ELSE CreateCheck(Tail(vlist))

RECURSIVE FreeFrom(_, _)
FreeFrom(tbl, i) ==
    IF i > MaxEntries THEN <<>>
    ELSE (IF tbl[i] = NoRow THEN <<i>> ELSE <<>>) \o FreeFrom(tbl, i + 1)

\* The ids the new rows get: the lowest free ones, in row order.
NewIds(tbl, n) == SubSeq(FreeFrom(tbl, 1), 1, n)

Inserted(tbl, vlist, ids) ==
    [i \in EntryIds |->
        IF InList(ids, i)
        THEN Row(vlist[CHOOSE n \in 1..Len(ids) : ids[n] = i].field, NoneV)
        ELSE tbl[i]]

RECURSIVE CreateSetters(_, _, _, _)
RECURSIVE AfterSetter(_, _, _, _)
\* The setter calls of the inherited create, one per row that sends a typed
\* value, in the order ns of the rows; r is what the calls before have left.
CreateSetters(r, vlist, ids, ns) ==
    IF Len(ns) = 0 THEN r
    ELSE AfterSetter(set_value(r.entries, r.defaults, <<ids[Head(ns)]>>,
                               AccessorOf(vlist[Head(ns)].typed), vlist[Head(ns)].typed),
                     vlist, ids, ns)

AfterSetter(r, vlist, ids, ns) ==
    IF IsRaised(r.raised) THEN r ELSE CreateSetters(r, vlist, ids, Tail(ns))

\* super().create(vlist), line 181: the rows are inserted, then the setters run.
InsertAndSet(tbl, d, tbl2, vlist, ids, order) ==
    IF ~UniqueOK(tbl2) THEN Outcome(tbl, d, Raised("default_uniq"))
    ELSE CreateSetters(Outcome(tbl2, d, NoneV), vlist, ids, order)

Checked(tbl, d, vlist, ids, order, err) ==
    IF IsRaised(err) THEN Outcome(tbl, d, err)
    ELSE InsertAndSet(tbl, d, Inserted(tbl, vlist, ids), vlist, ids, order)

\* The whole call; order is the order in which the setters run.
create_call(tbl, d, vlist, order) ==
    Checked(tbl, d, vlist, NewIds(tbl, Len(vlist)), order, CreateCheck(vlist))

(***************************************************************************)
(* write, lines 183-188, with one (records, values) pair.                  *)
(***************************************************************************)
\* values: a new model and field, or a typed value under its accessor.
FieldChange(f) == [kind |-> "field", field |-> f]
TypedChange(v) == [kind |-> "typed", typed |-> v]

Updated(tbl, ids, vals) ==
    IF vals.kind = "field"
    THEN [i \in EntryIds |-> IF InList(ids, i) THEN Row(vals.field, tbl[i].value) ELSE tbl[i]]
    ELSE tbl

PassOutcome(tbl, r) == Outcome(tbl, r.defaults, r.raised)

\* Lines 186-188: set_default_values(default_values) after the inherited write.
InstallWritten(s, ids) ==
    IF IsRaised(s.raised) THEN s
    ELSE PassOutcome(s.entries,
                     set_default_values(s.defaults, Views(s.entries, ids), AllViews(s.entries)))

\* super().write(*args), line 185: the columns, then the setters.
WriteColumns(tbl, d, tbl2, ids, vals) ==
    IF ~UniqueOK(tbl2) THEN Outcome(tbl, d, Raised("default_uniq"))
    ELSE IF vals.kind = "typed"
         THEN InstallWritten(set_value(tbl2, d, ids, AccessorOf(vals.typed), vals.typed), ids)
    ELSE InstallWritten(Outcome(tbl2, d, NoneV), ids)

write_call(tbl, d, ids, vals) == WriteColumns(tbl, d, Updated(tbl, ids, vals), ids, vals)

(***************************************************************************)
(* delete, lines 190-197.                                                  *)
(***************************************************************************)
\* delete without lines 193-196: Model._defaults is left alone.
delete_defaults_kept(tbl, d, ids) == d

RECURSIVE delete_defaults(_, _, _)
\* Lines 193-196.
delete_defaults(tbl, d, ids) ==
    IF Len(ids) = 0 THEN d
    ELSE delete_defaults(tbl, [d EXCEPT ![Key(View(tbl, Head(ids)))] = Absent], Tail(ids))

delete_call(tbl, d, ids) ==
    Outcome([i \in EntryIds |-> IF InList(ids, i) THEN NoRow ELSE tbl[i]],
            delete_defaults(tbl, d, ids), NoneV)

(***************************************************************************)
(* Requests and the loader thread.                                         *)
(***************************************************************************)
SampleChar == StrV(<<"a">>)
\* A date whose month and day print as 08 and 09.
SampleDate89 == DateV(2024, 8, 9)

\* The typed values a client sends for a field of each kind, or none.
TypedFor(ttype) ==
    CASE ttype = "char" -> {NoneV, SampleChar}
      [] ttype = "date" -> {NoneV, SampleDate89}
      [] OTHER -> {NoneV}

\* The rows of a create call: a field and the typed value sent with it.
VRows == {r \in [field : FieldIds, typed : {NoneV, SampleChar, SampleDate89}] :
             r.typed \in TypedFor(Fields[r.field].ttype)}

Batches == UNION {[1..n -> VRows] : n \in 1..MaxBatch}

TypedRows(vlist) == {n \in 1..Len(vlist) : vlist[n].typed # NoneV}

\* The orders in which the inherited create may call the setters: the
\* accessors are the keys of a dict, the rows of one accessor keep their order.
SetterOrders(vlist) ==
    {o \in [1..Cardinality(TypedRows(vlist)) -> TypedRows(vlist)] :
        /\ \A a, b \in DOMAIN o : a # b => o[a] # o[b]
        /\ \A a, b \in DOMAIN o :
              (a < b /\ AccessorOf(vlist[o[a]].typed) = AccessorOf(vlist[o[b]].typed))
                  => o[a] < o[b]}

\* Lists of distinct persisted records.
RecordLists(tbl) ==
    {ids \in UNION {[1..n -> Persisted(tbl)] : n \in 0..MaxEntries} :
        \A a, b \in DOMAIN ids : a # b => ids[a] # ids[b]}

\* The fields a write moves an entry to: the stored ones.
MoveTargets == {f \in FieldIds : ~Fields[f].functional}

WriteValues == {FieldChange(f) : f \in MoveTargets}
                   \cup {TypedChange(v) : v \in {SampleChar, SampleDate89}}

Thread(pc, queue, scope) == [pc |-> pc, queue |-> queue, scope |-> scope]

\* A request commits the table unless it raised; Model._defaults is process
\* memory and keeps what was installed before the exception.
Handled(op, r) ==
    /\ entries' = (IF IsRaised(r.raised) THEN entries ELSE r.entries)
    /\ defaults' = r.defaults
    /\ last' = [op |-> op, raised |-> r.raised]
    /\ UNCHANGED <<loader, rec, recdef, out>>

create(vlist, order) ==
    /\ Len(vlist) <= Cardinality(EntryIds \ Persisted(entries))
    /\ Handled("create", create_call(entries, defaults, vlist, order))

write(ids, vals) == Handled("write", write_call(entries, defaults, ids, vals))

delete(ids) == Handled("delete", delete_call(entries, defaults, ids))

\* load_default_values, lines 157-162, after sleep(5): the transaction starts
\* and set_default_values() reads every row (lines 202-204).
load_start ==
    /\ loader.pc = "sleeping"
    /\ loader' = Thread(IF Persisted(entries) = {} THEN "done" ELSE "running",
                        AllViews(entries), NewScope)
    /\ UNCHANGED <<entries, defaults, last, rec, recdef, out>>

Turned(r) ==
    /\ loader' = (IF IsRaised(r.raised) THEN Thread("failed", <<>>, NewScope)
                  ELSE IF Len(loader.queue) = 1 THEN Thread("done", <<>>, NewScope)
                  ELSE Thread("running", Tail(loader.queue), r.scope))
    /\ defaults' = (IF IsRaised(r.raised) THEN defaults
                    ELSE [defaults EXCEPT ![Key(Head(loader.queue))] = r.fn])

\* One turn of the loop of set_default_values in the thread; an exception
\* ends the thread with a warning (lines 163-166).
load_step ==
    /\ loader.pc = "running"
    /\ Turned(set_default_values_step(loader.scope, Head(loader.queue)))
    /\ UNCHANGED <<entries, last, rec, recdef, out>>

Create == \E vlist \in Batches : \E order \in SetterOrders(vlist) : create(vlist, order)
Write == \E ids \in RecordLists(entries) : \E vals \in WriteValues : write(ids, vals)
Delete == \E ids \in RecordLists(entries) : delete(ids)

\* Rows kept from earlier runs of the server: entries for the plain fields,
\* never set or set through their accessor.
StartTables ==
    {tbl \in [EntryIds -> {NoRow} \cup {Row(f, v) : f \in FieldIds, v \in {NoneV, StoredText(SampleChar)}}] :
        /\ UniqueOK(tbl)
        /\ \A i \in Persisted(tbl) :
              /\ ~Fields[tbl[i].field].has_default
              /\ ~Fields[tbl[i].field].functional
              /\ tbl[i].value \in {NoneV} \cup
                    {StoredText(v) : v \in TypedFor(Fields[tbl[i].field].ttype) \ {NoneV, SampleDate89}}}

NoRec == [field |-> NoField, value |-> NoneV]

\* __post_setup__, lines 142-155: the thread starts when ir.module lists
\* default_value as installed.
Init ==
    /\ entries \in StartTables
    /\ defaults = ClassDefaults
    /\ loader \in {Thread("sleeping", <<>>, NewScope), Thread("off", <<>>, NewScope)}
    /\ last = [op |-> "start", raised |-> NoneV]
    /\ rec = NoRec
    /\ recdef = Absent
    /\ out = [op |-> "none"]

Next == Create \/ Write \/ Delete \/ load_start \/ load_step

Spec == Init /\ [][Next]_vars

(***************************************************************************)
(* One entry seen through its accessors: rec is a default.value instance   *)
(* of one field of a model "M", recdef what M._defaults holds for it.      *)
(***************************************************************************)
PlainField(ttype) == FieldDesc("M", "v", ttype, FALSE, FALSE, <<>>, <<>>)

\* Selections as target models declare them; the second has an empty option
\* of its own.
SelectionAB == <<Option(StrV(<<"a">>), <<"A">>), Option(StrV(<<"b">>), <<"B">>)>>
SelectionOptional == <<Option(NoneV, <<>>), Option(StrV(<<"a">>), <<"A">>)>>

\* Records of a related model: two of them share their rec_name.
RelatedTwo == <<[id |-> 1, rec_name |-> <<"a">>], [id |-> 12, rec_name |-> <<"a">>]>>

ValueFields ==
    {PlainField(k) : k \in FIELD_TYPES \ {"selection", "many2one"}}
        \cup {FieldDesc("M", "v", "selection", FALSE, FALSE, sel, <<>>) :
                 sel \in {SelectionAB, SelectionOptional}}
        \cup {FieldDesc("M", "v", "many2one", FALSE, FALSE, <<>>, ms) :
                 ms \in {<<>>, RelatedTwo}}

\* Floats with 12 and with 13 significant digits.
Float12 == FloatV(<<"1", "2", "3", "4", "5", "6", "7", "8", "9", "0", "1", "2">>)
Float13 == FloatV(<<"1", "2", "3", "4", "5", "6", "7", "8", "9", "0", "1", "2", "3">>)

\* Values of each accessor's kind.
Samples(name) ==
    CASE name = "boolean" -> {BoolV(TRUE), BoolV(FALSE)}
      [] name = "char" -> {StrV(<<>>), StrV(<<"a">>), StrV(<<"a", "b">>), StrV(<<"'">>)}
      [] name \in {"text", "reference"} -> {StrV(<<"a">>)}
      [] name = "selection" -> {StrV(<<"a">>), StrV(<<"b">>)}
      [] name = "integer" -> {IntV(0), IntV(7), IntV(-3), IntV(10)}
      [] name = "float" -> {FloatV(<<>>), FloatV(<<"5">>), Float12, Float13}
      [] name = "numeric" -> {DecimalV(FALSE, 0, 1), DecimalV(FALSE, 150, 2),
                              DecimalV(TRUE, 5, 3), DecimalV(FALSE, 7, 0)}
      [] name = "date" -> {DateV(2024, 3, 5), DateV(2024, 8, 9), DateV(2024, 12, 31)}
      [] name = "datetime" -> {DatetimeV(2024, 3, 5, 10, 30, 15),
                               DatetimeV(2024, 8, 9, 8, 9, 0)}
      [] name = "time" -> {TimeV(0, 0, 0), TimeV(10, 30, 15), TimeV(8, 9, 0)}
      [] name = "many2one" -> {StrV(<<"1">>), StrV(<<"1", "2">>)}

RecView == EntryView(rec.field, rec.value)

OneKey(fn) == [k \in {Key(RecView)} |-> fn]

\* The setter of a typed accessor on the saved entry, lines 275-280, with
\* the write that save() makes; r is what set_default_values([rec]) leaves.
SetDone(name, value, stored, r) ==
    /\ rec' = (IF IsRaised(r.raised) THEN rec ELSE [rec EXCEPT !.value = stored])
    /\ recdef' = r.defaults[Key(RecView)]
    /\ out' = [op |-> "set", name |-> name, value |-> value, raised |-> r.raised]

accessor_set(name, value) ==
    /\ rec.field # NoField
    /\ IF SetApplies(RecView, name, value)
       THEN SetDone(name, value, StoredText(value),
                    set_default_values(OneKey(recdef),
                                       <<EntryView(rec.field, StoredText(value))>>, <<>>))
       ELSE /\ out' = [op |-> "set", name |-> name, value |-> value, raised |-> NoneV]
            /\ UNCHANGED <<rec, recdef>>
    /\ UNCHANGED <<entries, defaults, loader, last>>

\* Reading a typed accessor, lines 250-273.
accessor_get(name) ==
    /\ rec.field # NoField
    /\ out' = [op |-> "get", name |-> name, value |-> get_value(RecView, name)]
    /\ UNCHANGED <<entries, defaults, loader, last, rec, recdef>>

Loaded(r) ==
    /\ recdef' = r.defaults[Key(RecView)]
    /\ out' = [op |-> "load", raised |-> r.raised]

\* A restart of the server with the entry persisted: M._defaults is rebuilt
\* and set_default_values() runs in the thread (lines 157-166).
rec_load ==
    /\ rec.field # NoField
    /\ Loaded(set_default_values(OneKey(Absent), <<>>, <<RecView>>))
    /\ UNCHANGED <<entries, defaults, loader, last, rec>>

\* The RPC get_selection_values on the instance, lines 126-140.
selection_values ==
    /\ out' = [op |-> "selection", options |-> get_selection_values(rec.field)]
    /\ UNCHANGED <<entries, defaults, loader, last, rec, recdef>>

\* An entry as create leaves it: of any field or none yet, default_value
\* unset or the empty text.
ValueInit ==
    /\ rec \in [field : ValueFields \cup {NoField}, value : {NoneV, StrV(<<>>)}]
    /\ recdef = Absent
    /\ out = [op |-> "none"]
    /\ entries = [i \in EntryIds |-> NoRow]
    /\ defaults = ClassDefaults
    /\ loader = Thread("off", <<>>, NewScope)
    /\ last = [op |-> "start", raised |-> NoneV]

AccessorSet == \E name \in FIELD_TYPES : \E value \in Samples(name) \cup {NoneV} :
                   accessor_set(name, value)
AccessorGet == \E name \in FIELD_TYPES : accessor_get(name)

ValueNext == AccessorSet \/ AccessorGet \/ rec_load \/ selection_values

SpecValue == ValueInit /\ [][ValueNext]_vars

(***************************************************************************)
(* Properties of the registry (specification Spec).                        *)
(***************************************************************************)
\* A function this module has installed, as opposed to a method of the class.
Installed(fn) == fn # Absent /\ fn.tmpl # "method"

KeyOf(tbl, i) == Key(View(tbl, i))

KeysOf(tbl, ids) == {KeyOf(tbl, ids[n]) : n \in DOMAIN ids}

\* C1: after a successful create, and after a successful write, Model._defaults
\* holds a function of this module under the field name of every entry
\* created or written, also for an entry created without a typed value.
C1_ProviderAfterCreateWrite ==
    [][/\ (last'.op = "create" /\ ~IsRaised(last'.raised))
            => \A i \in Persisted(entries') \ Persisted(entries) :
                  Installed(defaults'[KeyOf(entries', i)])
       /\ (last'.op = "write" /\ ~IsRaised(last'.raised))
            => \A ids \in RecordLists(entries) : \A vals \in WriteValues :
                  write(ids, vals) => \A k \in KeysOf(entries', ids) : Installed(defaults'[k])]_vars

\* C3: a delete of the entries ids leaves no key in Model._defaults for the
\* field of any deleted entry, and leaves every other key as it was.
C3_DeleteRemovesOnlyDeleted ==
    [][last'.op = "delete"
          => \A ids \in RecordLists(entries) :
                delete(ids) =>
                    \A k \in Keys : defaults'[k] = (IF k \in KeysOf(entries, ids)
                                                    THEN Absent ELSE defaults[k])]_vars

\* C3, its case: a delete has removed the key of a field whose class defines
\* a default while a function installed for another field is still there.
C3_Witness ==
    /\ last.op = "delete"
    /\ \E k \in Keys : ClassDefaults[k] # Absent /\ defaults[k] = Absent
    /\ \E k \in Keys : Installed(defaults[k])

\* The rows of a create call that the checks of lines 175-180 refuse.
Offending(vlist) ==
    {n \in DOMAIN vlist : Fields[vlist[n].field].has_default \/ Fields[vlist[n].field].functional}

FirstOffending(vlist) == CHOOSE n \in Offending(vlist) : \A m \in Offending(vlist) : n <= m

ErrorOfRow(r) ==
    IF Fields[r.field].has_default THEN Raised("field_has_default_value")
    ELSE Raised("field_is_functional")

\* C4 as stated: a create fails with field_has_default_value if any row
\* targets a field whose class defines a default, and with field_is_functional
\* if any row targets a Function field; nothing is persisted or changed.
C4_AnyRowDecidesError ==
    \A vlist \in Batches : \A order \in SetterOrders(vlist) :
        /\ (\E n \in DOMAIN vlist : Fields[vlist[n].field].has_default)
              => create_call(entries, defaults, vlist, order)
                    = Outcome(entries, defaults, Raised("field_has_default_value"))
        /\ (\E n \in DOMAIN vlist : Fields[vlist[n].field].functional)
              => create_call(entries, defaults, vlist, order)
                    = Outcome(entries, defaults, Raised("field_is_functional"))

\* C4, amended: a create with a row that targets a field whose class defines
\* a default or a Function field fails with the error of the first such row
\* (field_has_default_value before field_is_functional within a row); it
\* leaves the table and Model._defaults as they were.
C4_FirstRowDecidesError ==
    \A vlist \in Batches : \A order \in SetterOrders(vlist) :
        Offending(vlist) # {}
            => create_call(entries, defaults, vlist, order)
                  = Outcome(entries, defaults, ErrorOfRow(vlist[FirstOffending(vlist)]))

\* C4, its case: a create has been refused for a Function field while rows
\* and installed functions exist that it had to leave alone.
C4_Witness ==
    /\ last = [op |-> "create", raised |-> Raised("field_is_functional")]
    /\ Persisted(entries) # {}
    /\ \E k \in Keys : Installed(defaults[k])

\* C5: no persisted entry targets a field whose class defines a default, nor
\* a Function field, whatever creates, writes and deletes came before.
C5_NoDefaultedOrFunctionalTarget ==
    \A i \in Persisted(entries) :
        ~Fields[entries[i].field].has_default /\ ~Fields[entries[i].field].functional

\* C7: once the loader thread has ended, and before any request, every
\* persisted entry whose function can be generated and defined has that
\* function in Model._defaults under its field name, whatever the other
\* persisted entries are.
C7_LoadedForEveryEntry ==
    (loader.pc \in {"done", "failed"} /\ last.op = "start")
        => \A i \in Persisted(entries) :
              ~IsRaised(set_default_values_step(NewScope, View(entries, i)).raised)
                  => defaults[KeyOf(entries, i)] = GeneratedSource(Unbound, View(entries, i))

\* C9: whenever the loader thread is not in the middle of its pass,
\* Model._defaults holds a function of this module under a key only if a
\* persisted entry targets that field.
C9_NoStaleProvider ==
    loader.pc # "running"
        => \A k \in Keys :
              Installed(defaults[k]) => \E i \in Persisted(entries) : KeyOf(entries, i) = k

\* C10: after a write, whose pass of set_default_values runs over the
\* written entries, the function under each entry's key is the one generated
\* from that entry's own field name, type and default_value.
C10_ProviderFromOwnEntry ==
    [][(last'.op = "write" /\ ~IsRaised(last'.raised))
          => \A ids \in RecordLists(entries) : \A vals \in WriteValues :
                write(ids, vals)
                    => \A n \in DOMAIN ids :
                          defaults'[KeyOf(entries', ids[n])]
                              = GeneratedSource(Unbound, View(entries', ids[n]))]_vars

(***************************************************************************)
(* Properties of the accessors (specification SpecValue).                  *)
(***************************************************************************)
\* C2: for an entry of any field type and any default_value, unset and empty
\* included, set_default_values installs a function that returns what the
\* getter of the entry's type returns for the same default_value.
C2_ProviderReturnsTypedValue ==
    (out.op = "load" /\ rec.field # NoField)
        => /\ out.raised = NoneV
           /\ recdef # Absent
           /\ Invoke(recdef) = get_value(RecView, rec.field.ttype)

\* C6: a value written through the setter of the entry's type is the value
\* its getter returns afterwards, unless its text is the empty one.
C6_SetThenGet ==
    (out.op = "set" /\ rec.field # NoField /\ out.name = rec.field.ttype
        /\ out.value # NoneV /\ PyStr(out.value) # <<>>)
        => /\ out.raised = NoneV
           /\ get_value(RecView, out.name) = out.value

NoDuplicates(seq) == \A a, b \in DOMAIN seq : a # b => seq[a] # seq[b]

\* C8: get_selection_values returns the empty option, then the options the
\* field declares (selection) or one per record of the related model
\* (many2one), and nothing else; no option occurs twice.
C8_SelectionValues ==
    out.op = "selection"
        => /\ Head(out.options) = EmptyOption
           /\ Tail(out.options) =
                 (IF rec.field = NoField THEN <<>>
                  ELSE IF rec.field.ttype = "selection" THEN rec.field.selection
                  ELSE IF rec.field.ttype = "many2one" THEN RelatedOptions(rec.field.related)
                  ELSE <<>>)
           /\ NoDuplicates(out.options)

====
